---- MODULE Spec2Model ----
(***************************************************************************)
(* ExchangeService of slwyts/ntxcore: the three exchange workers (Bitget,  *)
(* XT.COM, Gate.io), the sync state store and the backend submission       *)
(* client, as one state machine.                                           *)
(*                                                                         *)
(* Node.js runs one callback at a time, so every action below is the code  *)
(* that runs between two awaits: a timer firing (up to the first request), *)
(* the return of an exchange request (up to the next request or the first  *)
(* sendTradeData call), and the return of a sendTradeData call (up to the  *)
(* next call or the end of the cycle).  Cycles of one exchange are started *)
(* by setInterval with no guard, so several can be in flight.              *)
(*                                                                         *)
(* Time is counted in units of 500 ms, so that millisecond timestamps and  *)
(* Gate's second timestamps (floor(ms / 1000)) differ and 30 days still    *)
(* fit TLC's integers.                                                     *)
(***************************************************************************)
EXTENDS Integers, Sequences, FiniteSets, TLC

\* ------------------------------------------------------------- bounds
MaxCycles == 2
MaxItems == 3
MaxTicks == 2
MaxWorkers == 1
MaxCalls == 3
MaxWall == 3000
MaxTx == 3
MaxAdvances == 2
MaxSpan == 12
FineUnit == 4
MaxEvents == 2

\* ---------------------------------------------------------- constants
Exchanges == {"bitget", "xt", "gate"}

MsPerUnit == 1000 \div 2
UnitsPerSec == 1000 \div MsPerUnit
SecPerDay == 24 * 60 * 60
UnitsPerDay == SecPerDay * UnitsPerSec

\* a duration given in milliseconds, in time units
Ms(n) == n \div MsPerUnit

\* stateService.js:43  Date.now() - (10 * 60 * 1000)
TenMinutes == Ms(10 * 60 * 1000)

\* setInterval(fetchAndProcessCommissions, 30000 | 30000 | 60000)
Interval(ex) == IF ex = "gate" THEN Ms(60000) ELSE Ms(30000)

\* the fixed lookback of test mode, in the unit of the exchange's request
\* (Bitget and XT: milliseconds; Gate: seconds)
TestLookback(ex) ==
    CASE ex = "bitget" -> Ms(2 * 24 * 60 * 60 * 1000)
      [] ex = "xt"     -> Ms(7 * 24 * 60 * 60 * 1000)
      [] ex = "gate"   -> 7 * SecPerDay

\* Gate: nowTimestamp - startTime > 30 * 24 * 60 * 60 (seconds)
GateWindowCap == 30 * 24 * 60 * 60

\* the clock when the process starts
T0 == 50 * UnitsPerDay

\* between two callbacks that read the clock, one Bitget/XT timer interval can pass
TickSteps == {Ms(30000)}

\* ------------------------------------------------- exchange responses
VARIABLE
    faulty        \* whether the exchanges' answers can break their API contract

\* A raw item of an exchange response, reduced to the fields the workers read:
\*   ts    Bitget item.date (ms), XT item.date (ms), Gate item.transaction_time (s)
\*   uid   item.uid / item.user_id
\*   amt   Bitget item.fee, XT item.commissionAmount, Gate item.fee
\*   rate  XT: the rebate rate of the item's own type, in percent
\*   type  XT item.type (1 spot, 2 futures)
\*   asset Gate item.fee_asset
ItemTimes == {1, 3, 5}

Item(t, u, a, r, ty, ast) ==
    [ts |-> t, uid |-> u, amt |-> a, rate |-> r, type |-> ty, asset |-> ast]

\* the items an exchange returns under its API contract
GoodItems(ex) ==
    CASE ex = "bitget" ->
            {Item(t, "u1", 2, 0, 0, "USDT") : t \in ItemTimes}
            \cup {Item(3, "u2", 0, 0, 0, "USDT")}
      [] ex = "xt" ->
            {Item(t, "u1", 2, 50, 1, "USDT") : t \in ItemTimes}
            \cup {Item(3, "u2", 2, 0, 2, "USDT")}
      [] ex = "gate" ->
            {Item(1, "u1", 2, 0, 0, "USDT"), Item(5, "u1", 2, 0, 0, "USDT"),
             Item(3, "u1", 2, 0, 0, "BTC"), Item(3, "u2", 2, 0, 0, "DOGE"),
             Item(3, "u2", 0, 0, 0, "USDT")}

\* an item without uid / user_id (uid "": the field is undefined)
BadItems(ex) ==
    IF ex = "xt" THEN {Item(3, "", 2, 50, 1, "USDT")}
    ELSE {Item(3, "", 2, 0, 0, "USDT")}

RawItems(ex) == GoodItems(ex) \cup (IF faulty THEN BadItems(ex) ELSE {})

SeqsUpTo(S, n) == UNION {[1..k -> S] : k \in 0..n}

\* limit: 1000 in the request of Bitget and Gate, scaled: the most items one
\* response holds
Limit == 3

\* whether the worker's request carries a limit (XT's does not)
HasLimit(ex) == ex # "xt"

\* how many items a response can hold when n more fit the model
Returnable(ex, n) == IF HasLimit(ex) /\ n > Limit THEN Limit ELSE n

\* what a signed client's request can produce: an exception (transport error),
\* a non-success envelope, a success envelope with a list of items, or
\* ("malformed") a success envelope without the body the worker reads; more:
\* the answer was cut at the request's limit, the exchange holds further
\* positive-fee items of the window
Responses(ex, n) ==
    {[kind |-> "throw", items |-> <<>>, more |-> FALSE],
     [kind |-> "fail", items |-> <<>>, more |-> FALSE]}
    \cup {[kind |-> "ok", items |-> s, more |-> FALSE] :
              s \in SeqsUpTo(RawItems(ex), Returnable(ex, n))}
    \cup {[kind |-> "ok", items |-> s, more |-> TRUE] :
              s \in {t \in SeqsUpTo(RawItems(ex), Returnable(ex, n)) :
                        HasLimit(ex) /\ Len(t) = Limit}}
    \cup (IF faulty THEN {[kind |-> "malformed", items |-> <<>>, more |-> FALSE]}
          ELSE {})

\* whether handling the response throws: the request threw, or the worker reads
\* a field of the missing body (bitget response.data.commissionList, xt
\* response.result.items); gate tests Array.isArray(response.list) first
Throws(ex, resp) ==
    resp.kind = "throw" \/ (resp.kind = "malformed" /\ ex # "gate")

\* whether the worker takes the response for a failed request (its else branch)
EnvelopeFails(ex, resp) ==
    resp.kind = "fail" \/ (resp.kind = "malformed" /\ ex = "gate")

\* Gate /spot/tickers: the table of USDT pairs fetchAndCacheTickers builds
\* (asset -> last price); the request can also throw
NoTable == [a \in {} |-> 0]
Tables == {NoTable, [a \in {"BTC"} |-> 3], [a \in {"BTC"} |-> 4]}
TickerResponses ==
    {[ok |-> FALSE, table |-> NoTable]} \cup {[ok |-> TRUE, table |-> t] : t \in Tables}

\* what axios.post to the backend can produce
SendOutcomes == {"ok200", "non200", "unreachable"}

\* ------------------------------------------------------ pure functions
RECURSIVE InsertByTime(_, _)
InsertByTime(x, s) ==
    IF s = <<>> THEN <<x>>
    ELSE IF Head(s).ts > x.ts THEN <<x>> \o s
    ELSE <<Head(s)>> \o InsertByTime(x, Tail(s))

\* (mutant) the list is left in the order of the response
SortNone(s) == s

\* Array.prototype.sort((a, b) => a.ts - b.ts): ascending and stable
RECURSIVE SortByTime(_)
SortByTime(s) ==
    IF s = <<>> THEN <<>>
    ELSE InsertByTime(s[Len(s)], SortByTime(SubSeq(s, 1, Len(s) - 1)))

IsSorted(s) == \A i \in 1..(Len(s) - 1) : s[i].ts <= s[i + 1].ts

\* xt/index.js calculateOriginalFee: commission / rebateRate, 0 when the rate is 0
calculateOriginalFee(commission, rebateRate) ==
    IF rebateRate = 0 THEN 0 ELSE (commission * 100) \div rebateRate

\* gate convertToUsdt(asset, amount) against a price table
\* (mutant) an asset without price is taken at par
convertToUsdtAtPar(cache, asset, amount) ==
    IF asset = "USDT" THEN amount
    ELSE IF asset \in DOMAIN cache /\ cache[asset] # 0 THEN amount * cache[asset]
    ELSE amount

convertToUsdt(cache, asset, amount) ==
    IF asset = "USDT" THEN amount
    ELSE IF asset \in DOMAIN cache /\ cache[asset] # 0 THEN amount * cache[asset]
    ELSE 0

\* the fee the worker parses from a raw item
ParsedFee(ex, item) ==
    IF ex = "xt" THEN calculateOriginalFee(item.amt, item.rate) ELSE item.amt

\* the worker's test before it calls sendTradeData for an item:
\* Bitget and Gate require fee > 0, XT submits every parsed entry
Submits(ex, item) ==
    IF ex = "xt" THEN TRUE ELSE ParsedFee(ex, item) > 0

\* feeUsdt of the record handed to sendTradeData
FeeUsdt(ex, cache, item) ==
    CASE ex = "bitget" -> item.amt
      [] ex = "xt"     -> calculateOriginalFee(item.amt, item.rate)
      [] ex = "gate"   -> convertToUsdt(cache, item.asset, item.amt)

\* whether convertToUsdt finds no price for the item's asset (its warning branch)
PriceMiss(ex, cache, item) ==
    /\ ex = "gate"
    /\ item.asset # "USDT"
    /\ ~(item.asset \in DOMAIN cache /\ cache[item.asset] # 0)

\* tradeDate: the calendar day of the item's timestamp
TradeDate(ex, item) ==
    IF ex = "gate" THEN item.ts \div SecPerDay ELSE item.ts \div UnitsPerDay

\* the items of a sorted list from the first one the worker submits
RECURSIVE SkipFiltered(_, _)
SkipFiltered(ex, s) ==
    IF s = <<>> THEN <<>>
    ELSE IF Submits(ex, Head(s)) THEN s
    ELSE SkipFiltered(ex, Tail(s))

\* --------------------------------------------------------------- state
VARIABLES
    mode,         \* process.env.MODE: "normal" or "test"
    clock,        \* Date.now(), in time units
    ticks,        \* how often the clock has advanced
    state,        \* stateService.state: exchange -> lastSyncTimestamp
    file,         \* the content of state.json
    tickerCache,  \* gate: the module's price table
    nextFire,     \* per exchange: the earliest time of the next timer callback
    cycles,       \* the calls of fetchAndProcessCommissions, in order of start
    fetched,      \* how many raw items the exchanges have returned so far
    last,         \* how the cycle that returned last ended
    workers,      \* the exchanges whose worker runs
    processedEntries,  \* cachingService.processedEntries: the set of keys
    wall,         \* the local time of the cache's last timer callback, in ms from midnight
    resets,       \* how often the cache's reset has run
    dropped,      \* the keys the last reset removed
    added,        \* the (exchange, entry) pairs add was called with since the last reset
    call,         \* the last call of a service method, when methods are called directly
    env,          \* process.env: the variables that are set to a non-empty value
    boot,         \* where index.js is in its start-up
    tok,          \* the NexTradeDAO contract's storage
    today,        \* the chain's time, in whole days since the contract's startDate
    advances,     \* how often the chain's time has been moved on
    tx,           \* the last transaction sent to the contract, or the last call
                  \* of one of its functions
    gntx          \* gntx-sync-service: the NFT contract, the handlers, the backend

vars == <<mode, clock, ticks, state, file, tickerCache, nextFire, cycles, fetched, last,
          workers, processedEntries, wall, resets, dropped, added, call, faulty,
          env, boot, tok, today, advances, tx, gntx>>

\* the variables of the caching service and of direct method calls
apiVars == <<processedEntries, wall, resets, dropped, added, call, faulty, env, boot, tok, today, advances, tx, gntx>>

\* the credentials the workers read from process.env
EnvKeys ==
    {"BITGET_API_KEY", "BITGET_SECRET_KEY", "BITGET_PASSPHRASE",
     "XT_API_KEY", "XT_SECRET_KEY", "GATE_API_KEY", "GATE_SECRET_KEY"}

\* index.js has run to its end with every credential set
Started == env = EnvKeys /\ boot = "running"

\* no method has been called directly
NoCall ==
    [n |-> 0, op |-> "none", ex |-> "-", t |-> 0, ret |-> 0, wrote |-> FALSE,
     pop |-> "none", pex |-> "-", pt |-> 0]

\* no contract is deployed
NoToken == [ok |-> FALSE]
NoTx == [n |-> 0, op |-> "none", sender |-> "-", to |-> "-", value |-> 0, ok |-> FALSE]
Undeployed == tok = NoToken /\ today = 0 /\ advances = 0 /\ tx = NoTx

\* the caching service is not loaded: no worker requires it
IdleCache ==
    /\ processedEntries = {}
    /\ wall = 0
    /\ resets = 0
    /\ dropped = {}
    /\ added = {}
    /\ call = NoCall

\* the sync service of the GNTX NFT does not run
NoSync ==
    [chain |-> 0, backend |-> 0, bound |-> FALSE, events |-> <<>>, handlers |-> <<>>,
     failed |-> FALSE]
IdleSync == gntx = NoSync

\* neither the caching service nor the contract nor the sync service is in use
IdleApi == Undeployed /\ IdleCache /\ IdleSync

NoState == [e \in {} |-> 0]

\* The content of state.json: the members of the JSON object it holds, as
\* pairs <<exchange, lastSyncTimestamp>>; ok is FALSE when there is no file or
\* its text does not parse.
NoFile == [ok |-> FALSE, members |-> {}]

\* JSON.stringify(this.state, null, 2)
stringify(st) == [ok |-> TRUE, members |-> {<<e, st[e]>> : e \in DOMAIN st}]

\* the state.json the process can find at startup: none, one written a minute
\* ago, one written 30 days ago (the edge of Gate's window cap), and one whose
\* timestamps are ahead of the clock (written before the clock was set back)
InitialFiles ==
    {NoFile}
    \cup {stringify([e \in Exchanges |-> T0 - d]) : d \in {Ms(60000), 30 * UnitsPerDay}}
    \cup {stringify([e \in Exchanges |-> T0 + Ms(30000)])}

\* (mutant) a load that always starts with a fresh state
loadStateFresh(f) == NoState

\* StateService.loadState: JSON.parse of the file; {} when there is no file or
\* the text does not parse
loadState(f) ==
    IF f.ok
    THEN [e \in {m[1] : m \in f.members} |->
             (CHOOSE m \in f.members : m[1] = e)[2]]
    ELSE NoState

\* (mutant) without a stored value the window starts now
getLastSyncTimestampOrNow(ex, at) ==
    IF ex \in DOMAIN state /\ state[ex] # 0 THEN state[ex] ELSE at

\* StateService.getLastSyncTimestamp, called at time `at`
getLastSyncTimestamp(ex, at) ==
    IF ex \in DOMAIN state /\ state[ex] # 0 THEN state[ex] ELSE at - TenMinutes

\* (mutant) the timestamp is stored whatever the stored value
AdvancesAlways(ex, timestamp) == TRUE

\* (mutant) a timestamp equal to the stored one is stored again
AdvancesOrEqual(ex, timestamp) ==
    \/ ex \notin DOMAIN state
    \/ state[ex] = 0
    \/ timestamp >= state[ex]

\* StateService.updateLastSyncTimestamp: the test of line 52
Advances(ex, timestamp) ==
    \/ ex \notin DOMAIN state
    \/ state[ex] = 0
    \/ timestamp > state[ex]

Put(st, ex, timestamp) ==
    [e \in (DOMAIN st) \cup {ex} |-> IF e = ex THEN timestamp ELSE st[e]]

\* StateService.saveState: fs.writeFileSync writes the whole state, or fails
\* (the error is caught and logged). It opens the file with flag 'w', which
\* truncates it, and then writes: a failure to open (EACCES, EROFS) leaves the
\* file as it was, a failure to write (ENOSPC, EIO) leaves it cut short.
saveState(st) == file' \in {stringify(st), file, NoFile}

\* StateService.updateLastSyncTimestamp
updateLastSyncTimestamp(ex, timestamp) ==
    IF Advances(ex, timestamp)
    THEN /\ state' = Put(state, ex, timestamp)
         /\ saveState(Put(state, ex, timestamp))
    ELSE UNCHANGED <<state, file>>

\* One call of fetchAndProcessCommissions, while it runs:
\*   pc        "tickers" | "fetch" | "fetch2" | "send"
\*   begun     the time the timer callback ran
\*   now       the timestamp the cycle writes as watermark (ms, in time units)
\*   start, end   the window of the request, in the exchange's unit
\*   list      the sorted items from the one being submitted on
\*   sent      the records handed to sendTradeData so far, the last one in flight
\*   sendable  how many items of the response the worker submits
\*   unsorted  whether the response was not in ascending order of time
\*   requests  how many requests the cycle has sent to the exchange
\*   read      what getLastSyncTimestamp returned to the cycle (0: not called)
\*   records   how many items the exchange returned to the cycle
\*   snapOk    gate: whether the cycle's own fetchAndCacheTickers built a table
\*   table     gate: the table the cycle's own fetchAndCacheTickers built
\*   failedAt  the first sendTradeData call of the cycle whose POST failed (0: none)
\*   malformed whether the cycle ended at an item it could not normalise
\*   more      whether the exchange held items of the window beyond the limit
\*   (Summary) missAt: the first submission whose asset had no price, or 0
\*   noop, threw, envFail, updated: what has happened in the cycle
NewCycle(ex) ==
    [ex |-> ex, pc |-> "done", begun |-> 0, now |-> 0, start |-> 0, end |-> 0,
     list |-> <<>>, sent |-> <<>>, sendable |-> 0, requests |-> 0,
     read |-> 0, records |-> 0, snapOk |-> FALSE, table |-> NoTable,
     unsorted |-> FALSE, threw |-> FALSE, envFail |-> FALSE,
     failedAt |-> 0, updated |-> FALSE, noop |-> FALSE, malformed |-> FALSE,
     more |-> FALSE]

\* a call that has returned: its locals are gone
Gone == NewCycle("-")

\* how a call ended, kept for the call that returned last (idx: which call)
Summary(cyc) ==
    [ex |-> cyc.ex, now |-> cyc.now, noop |-> cyc.noop, threw |-> cyc.threw,
     envFail |-> cyc.envFail, failedAt |-> cyc.failedAt, updated |-> cyc.updated,
     calls |-> Len(cyc.sent), sendable |-> cyc.sendable,
     requests |-> cyc.requests, records |-> cyc.records,
     start |-> cyc.start, read |-> cyc.read, idx |-> 0,
     malformed |-> cyc.malformed, more |-> cyc.more,
     missAt |-> IF \E i \in 1..Len(cyc.sent) : cyc.sent[i].miss
                THEN CHOOSE i \in 1..Len(cyc.sent) :
                        /\ cyc.sent[i].miss
                        /\ \A j \in 1..(i - 1) : ~cyc.sent[j].miss
                ELSE 0]

\* the async function returns
Return(c, cyc) ==
    /\ cycles' = [cycles EXCEPT ![c] = Gone]
    /\ last' = [Summary(cyc) EXCEPT !.idx = c]

IsTestMode == mode = "test"

Init ==
    /\ mode \in {"normal", "test"}
    /\ clock = T0
    /\ ticks = 0
    /\ file \in InitialFiles
    /\ state = loadState(file)
    /\ tickerCache = NoTable
    /\ nextFire = [e \in Exchanges |-> T0]
    /\ cycles = <<>>
    /\ fetched = 0
    /\ last = Summary(Gone)
    /\ workers \in {w \in SUBSET Exchanges : w # {} /\ Cardinality(w) <= MaxWorkers}
    /\ IdleApi
    /\ faulty = FALSE
    /\ Started

\* The times at which the next callback that reads the clock can run: now, or
\* after more time has passed.
Times == {clock} \cup (IF ticks < MaxTicks THEN {clock + d : d \in TickSteps} ELSE {})

\* time passes until `at`
Elapse(at) ==
    /\ clock' = at
    /\ ticks' = IF at > clock THEN ticks + 1 ELSE ticks

\* (mutant) the window always starts a fixed time before its end
WindowStartLookback(ex, nowTimestamp) == nowTimestamp - TestLookback(ex)

\* the window of a Bitget or XT cycle: lines 22-34 / 36-45
WindowStart(ex, nowTimestamp) ==
    IF IsTestMode THEN nowTimestamp - TestLookback(ex)
    ELSE getLastSyncTimestamp(ex, nowTimestamp)

\* fetchAndProcessCommissions of Bitget and XT up to the first request
BeginCycle(ex, at) ==
    LET nowTimestamp == at
        startTime == WindowStart(ex, nowTimestamp)
        c == [NewCycle(ex) EXCEPT !.begun = at, !.now = nowTimestamp,
                                  !.start = startTime, !.end = nowTimestamp,
                                  !.read = IF IsTestMode THEN 0 ELSE startTime]
    IN  IF startTime >= nowTimestamp
        THEN [c EXCEPT !.pc = "done", !.noop = TRUE]
        ELSE [c EXCEPT !.pc = "fetch", !.requests = 1]

\* (mutant) a timer that can fire again at once
RearmAtOnce(ex, at) == at

\* setInterval(fetchAndProcessCommissions, interval): the earliest time of the
\* callback after the one that runs now
Rearm(ex, at) == at + Interval(ex)

\* start() and setInterval: the callback of an exchange's timer runs
\* fetchAndProcessCommissions is called at time `at` and runs to its first await
CallCycle(ex, at) ==
    /\ Elapse(at)
    /\ nextFire' = [nextFire EXCEPT ![ex] = Rearm(ex, at)]
    /\ LET cyc == IF ex = "gate"
                   THEN [NewCycle(ex) EXCEPT !.pc = "tickers", !.begun = at,
                                             !.requests = 1]
                   ELSE BeginCycle(ex, at)
       IN  IF cyc.pc = "done"
           THEN /\ cycles' = Append(cycles, Gone)
                /\ last' = [Summary(cyc) EXCEPT !.idx = Len(cycles) + 1]
           ELSE cycles' = Append(cycles, cyc) /\ UNCHANGED last

TimerFire(ex) ==
    /\ ex \in workers
    /\ Len(cycles) < MaxCycles
    /\ \E at \in Times :
        /\ at >= nextFire[ex]
        /\ CallCycle(ex, at)
    /\ UNCHANGED <<workers, mode, state, file, tickerCache, fetched, apiVars>>

\* (mutant) the watermark is written in test mode too
WritesWatermarkAlways == TRUE

\* whether the worker writes the watermark at the end of a cycle:
\* if (!IS_TEST_MODE), line 84 of bitget, 123 of xt, 135 of gate
WritesWatermark == ~IsTestMode

\* (mutant) the watermark is written only when the exchange returned records
AdvanceWatermarkIfRecords(c, cyc) ==
    /\ UNCHANGED workers
    /\ IF WritesWatermark /\ cyc.records > 0
       THEN /\ Return(c, [cyc EXCEPT !.updated = TRUE])
            /\ updateLastSyncTimestamp(cyc.ex, cyc.now)
       ELSE /\ Return(c, cyc)
            /\ UNCHANGED <<state, file>>

\* (mutant) the watermark is the time at which the cycle finishes
AdvanceWatermarkAtFinish(c, cyc) ==
    /\ UNCHANGED workers
    /\ IF WritesWatermark
       THEN /\ Return(c, [cyc EXCEPT !.updated = TRUE])
            /\ updateLastSyncTimestamp(cyc.ex, clock)
       ELSE /\ Return(c, cyc)
            /\ UNCHANGED <<state, file>>

\* the end of a cycle that did not throw
AdvanceWatermark(c, cyc) ==
    /\ UNCHANGED workers
    /\ IF WritesWatermark
       THEN /\ Return(c, [cyc EXCEPT !.updated = TRUE])
            /\ updateLastSyncTimestamp(cyc.ex, cyc.now)
       ELSE /\ Return(c, cyc)
            /\ UNCHANGED <<state, file>>

\* backendApiService.sendTradeData up to its await: whether axios.post is
\* issued (lines 32-35: not in test mode)
SendPosts == ~IsTestMode

\* the record handed to sendTradeData for an item (table: the price table
\* convertToUsdt read for it)
sendTradeData(ex, item) ==
    [ts |-> item.ts, uid |-> item.uid, type |-> item.type,
     date |-> TradeDate(ex, item), fee |-> ParsedFee(ex, item),
     feeUsdt |-> FeeUsdt(ex, tickerCache, item),
     table |-> IF ex = "gate" THEN tickerCache ELSE NoTable,
     miss |-> PriceMiss(ex, tickerCache, item),
     posted |-> SendPosts, returned |-> FALSE]

\* (mutant) a catch block that also writes the watermark
CatchErrorAndAdvance(c, cyc) ==
    /\ Return(c, [cyc EXCEPT !.threw = TRUE, !.updated = TRUE])
    /\ updateLastSyncTimestamp(cyc.ex, cyc.now)
    /\ UNCHANGED workers

\* (mutant) the error leaves the async function: the rejection is unhandled
\* and ends the process, with every worker in it
CatchErrorEscapes(c, cyc) ==
    /\ Return(c, [cyc EXCEPT !.threw = TRUE])
    /\ UNCHANGED <<state, file>>
    /\ workers' = {}

\* the catch block of fetchAndProcessCommissions: log, end the cycle; the
\* process and its timers go on
CatchError(c, cyc) ==
    /\ Return(c, [cyc EXCEPT !.threw = TRUE])
    /\ UNCHANGED <<state, file>>
    /\ UNCHANGED workers

\* whether building the record of an item throws: item.user_id.toString() in
\* the gate worker, tradeData.exchangeUid.toString() at the start of
\* sendTradeData for bitget and xt, both on an undefined uid
NormaliseThrows(item) == item.uid = ""

\* the for loop over the sorted items from `lst` on: skip the items the worker
\* filters out, call sendTradeData for the first other one and await it; with
\* no item left, advance the watermark; an item whose record cannot be built
\* throws into the catch block
Proceed(c, cyc, lst) ==
    LET pending == SkipFiltered(cyc.ex, lst) IN
    IF pending = <<>>
    THEN AdvanceWatermark(c, cyc)
    ELSE IF NormaliseThrows(Head(pending))
    THEN CatchError(c, [cyc EXCEPT !.malformed = TRUE])
    ELSE /\ cycles' = [cycles EXCEPT ![c] =
                          [cyc EXCEPT !.pc = "send", !.list = pending,
                              !.sent = Append(@, sendTradeData(cyc.ex, Head(pending)))]]
         /\ UNCHANGED <<state, file, last, workers>>

\* (mutant) no cap on the window
ClampNone(startTime, nowTimestamp) == startTime

\* gate lines 82-85: a window longer than 30 days starts 30 days before its end
ClampStart(startTime, nowTimestamp) ==
    IF nowTimestamp - startTime > GateWindowCap
    THEN nowTimestamp - GateWindowCap ELSE startTime

\* gate: fetchAndProcessCommissions from the return of fetchAndCacheTickers to
\* the rebate request (lines 64-101)
GateTickersReturn(c) ==
    /\ c \in DOMAIN cycles
    /\ cycles[c].pc = "tickers"
    /\ \E r \in TickerResponses, at \in Times :
        LET newCache == IF r.ok THEN r.table ELSE tickerCache
            now == at
            nowTimestamp == now \div UnitsPerSec
            lastSyncMs == getLastSyncTimestamp("gate", now)
            startTime0 == IF IsTestMode THEN nowTimestamp - TestLookback("gate")
                          ELSE lastSyncMs \div UnitsPerSec
            startTime == ClampStart(startTime0, nowTimestamp)
            own == [cycles[c] EXCEPT !.snapOk = r.ok,
                                     !.table = IF r.ok THEN r.table ELSE NoTable]
            cyc == [own EXCEPT !.now = now, !.start = startTime,
                               !.end = nowTimestamp,
                               !.read = IF IsTestMode THEN 0 ELSE lastSyncMs]
        IN  /\ Elapse(at)
            /\ tickerCache' = newCache
            /\ IF DOMAIN newCache = {} THEN Return(c, own)
               ELSE IF startTime >= nowTimestamp
                    THEN Return(c, [cyc EXCEPT !.noop = TRUE])
                    ELSE /\ cycles' = [cycles EXCEPT ![c] =
                                         [cyc EXCEPT !.pc = "fetch", !.requests = 2]]
                         /\ UNCHANGED last
    /\ UNCHANGED <<workers, mode, state, file, nextFire, fetched, apiVars>>

Count(ex, s) == Cardinality({i \in 1..Len(s) : Submits(ex, s[i])})

\* the return of the rebate request of Bitget (lines 50-90) and Gate
\* (lines 101-141), and of XT's second (Futures) request (lines 67-129)
FetchReturn(c) ==
    /\ c \in DOMAIN cycles
    /\ \/ cycles[c].pc = "fetch" /\ cycles[c].ex # "xt"
       \/ cycles[c].pc = "fetch2"
    /\ \E resp \in Responses(cycles[c].ex, MaxItems - fetched) :
        LET cyc == cycles[c]
            all == cyc.list \o resp.items
        IN  /\ fetched' = fetched + Len(resp.items)
            /\ IF Throws(cyc.ex, resp)
               THEN CatchError(c, cyc)
               ELSE Proceed(c, [cyc EXCEPT !.envFail = @ \/ EnvelopeFails(cyc.ex, resp),
                                           !.more = resp.more,
                                           !.records = Len(all),
                                           !.unsorted = ~IsSorted(all),
                                           !.sendable = Count(cyc.ex, all)],
                            SortByTime(all))
    /\ UNCHANGED <<mode, clock, ticks, tickerCache, nextFire, apiVars>>

\* xt: the return of the first (Spot) request, up to the Futures request
XtSpotReturn(c) ==
    /\ c \in DOMAIN cycles
    /\ cycles[c].pc = "fetch" /\ cycles[c].ex = "xt"
    /\ \E resp \in Responses("xt", MaxItems - fetched) :
        LET cyc == cycles[c] IN
        /\ fetched' = fetched + Len(resp.items)
        /\ IF Throws("xt", resp)
           THEN CatchError(c, cyc)
           ELSE /\ cycles' = [cycles EXCEPT ![c] =
                      [cyc EXCEPT !.pc = "fetch2", !.requests = 2,
                                  !.list = resp.items,
                                  !.envFail = EnvelopeFails("xt", resp)]]
                /\ UNCHANGED <<state, file, last, workers>>
    /\ UNCHANGED <<mode, clock, ticks, tickerCache, nextFire, apiVars>>

\* (mutant) a failed POST is thrown to the worker
SendRejectsOnFailure(outcome) == outcome \in {"non200", "unreachable"}

\* sendTradeData's try/catch around axios.post (lines 37-53): whether a failed
\* POST reaches the caller as an exception
SendRejects(outcome) == FALSE

\* the return of sendTradeData: the loop goes on with the next item
SendReturn(c) ==
    /\ c \in DOMAIN cycles
    /\ cycles[c].pc = "send"
    /\ \E outcome \in (IF SendPosts THEN SendOutcomes ELSE {"logged"}) :
        LET cyc == cycles[c]
            n == Len(cyc.sent)
            failed == outcome \in {"non200", "unreachable"}
            cyc2 == [cyc EXCEPT !.failedAt = IF failed /\ @ = 0 THEN n ELSE @,
                                !.sent[n].returned = TRUE]
        IN  IF SendRejects(outcome)
            THEN CatchError(c, cyc2)
            ELSE Proceed(c, cyc2, Tail(cyc.list))
    /\ UNCHANGED <<mode, clock, ticks, tickerCache, nextFire, fetched, apiVars>>

Next ==
    \/ \E ex \in Exchanges : TimerFire(ex)
    \/ \E c \in 1..MaxCycles : GateTickersReturn(c)
    \/ \E c \in 1..MaxCycles : XtSpotReturn(c)
    \/ \E c \in 1..MaxCycles : FetchReturn(c)
    \/ \E c \in 1..MaxCycles : SendReturn(c)

Spec == Init /\ [][Next]_vars

\* The same service when the exchanges' answers can break their API contract
\* (a success envelope without body, an item without uid), in normal mode.
InitFaulty ==
    /\ mode = "normal"
    /\ clock = T0
    /\ ticks = 0
    /\ file \in {NoFile, stringify([e \in Exchanges |-> T0 - Ms(60000)])}
    /\ state = loadState(file)
    /\ tickerCache = NoTable
    /\ nextFire = [e \in Exchanges |-> T0]
    /\ cycles = <<>>
    /\ fetched = 0
    /\ last = Summary(Gone)
    /\ workers \in {w \in SUBSET Exchanges : w # {} /\ Cardinality(w) <= MaxWorkers}
    /\ IdleApi
    /\ faulty = TRUE
    /\ Started

SpecFaulty == InitFaulty /\ [][Next]_vars

\* ------------------------------------------------- start-up of index.js
\* index.js requires the three worker modules, which build their clients from
\* process.env when they load, and then calls start() of each.

\* the config object of a worker module: whether each credential has a value
config(ex) ==
    CASE ex = "bitget" -> [apiKey |-> "BITGET_API_KEY" \in env,
                           secretKey |-> "BITGET_SECRET_KEY" \in env]
      [] ex = "xt"     -> [apiKey |-> "XT_API_KEY" \in env,
                           secretKey |-> "XT_SECRET_KEY" \in env]
      [] ex = "gate"   -> [apiKey |-> "GATE_API_KEY" \in env,
                           secretKey |-> "GATE_SECRET_KEY" \in env]

InitBoot ==
    /\ mode \in {"normal", "test"}
    /\ clock = T0
    /\ ticks = 0
    /\ file \in {NoFile, stringify([e \in Exchanges |-> T0 - Ms(60000)])}
    /\ state = loadState(file)
    /\ tickerCache = NoTable
    /\ nextFire = [e \in Exchanges |-> T0]
    /\ cycles = <<>>
    /\ fetched = 0
    /\ last = Summary(Gone)
    /\ workers = {}
    /\ IdleApi
    /\ faulty = FALSE
    /\ env \in SUBSET EnvKeys
    /\ boot = "require_bitget"

\* what a step of the start-up leaves alone
bootFrame == <<mode, state, file, tickerCache, fetched, processedEntries, wall, resets,
               dropped, added, call, faulty, env, tok, today, advances, tx, gntx>>

\* require('./exchanges/bitget'): new EasyAPI(config) stores the credentials
\* as they are
RequireBitget ==
    /\ boot = "require_bitget"
    /\ boot' = "require_xt"
    /\ UNCHANGED <<bootFrame, workers, clock, ticks, nextFire, cycles, last>>

\* require('./exchanges/xt'): process.exit(1) without key or secret
RequireXt ==
    /\ boot = "require_xt"
    /\ boot' = IF ~config("xt").apiKey \/ ~config("xt").secretKey
               THEN "exited" ELSE "require_gate"
    /\ UNCHANGED <<bootFrame, workers, clock, ticks, nextFire, cycles, last>>

\* require('./exchanges/gate'): new GateIO(config) throws without key or
\* secret, and nothing catches it
RequireGate ==
    /\ boot = "require_gate"
    /\ boot' = IF ~config("gate").apiKey \/ ~config("gate").secretKey
               THEN "exited" ELSE "start_bitget"
    /\ UNCHANGED <<bootFrame, workers, clock, ticks, nextFire, cycles, last>>

\* the order of the start() calls
StartOrder == <<"bitget", "xt", "gate">>

\* start() of the i-th worker: the first call of fetchAndProcessCommissions,
\* then setInterval
Start(i) ==
    /\ boot = "start_" \o StartOrder[i]
    /\ boot' = IF i < Len(StartOrder) THEN "start_" \o StartOrder[i + 1] ELSE "running"
    /\ workers' = workers \cup {StartOrder[i]}
    /\ CallCycle(StartOrder[i], clock)
    /\ UNCHANGED bootFrame

NextBoot ==
    \/ RequireBitget
    \/ RequireXt
    \/ RequireGate
    \/ \E i \in 1..Len(StartOrder) : Start(i)

SpecBoot == InitBoot /\ [][NextBoot]_vars

\* ------------------------------------------- the sync state store alone
\* The methods of StateService called directly, in any order, with the
\* timestamps a worker can pass (values of Date.now()).
Stamps == {T0 + d : d \in {0, Ms(30000), Ms(60000)}}

\* no worker runs
IdleWorkers ==
    /\ mode = "normal"
    /\ tickerCache = NoTable
    /\ nextFire = [e \in Exchanges |-> T0]
    /\ cycles = <<>>
    /\ fetched = 0
    /\ last = Summary(Gone)
    /\ workers = {}
    /\ faulty = FALSE
    /\ Started

workerVars == <<mode, tickerCache, nextFire, cycles, fetched, last, workers, faulty,
                env, boot, tok, today, advances, tx, gntx>>
cacheVars == <<processedEntries, wall, resets, dropped, added>>

InitStore ==
    /\ IdleWorkers
    /\ IdleApi
    /\ clock = T0
    /\ ticks = 0
    /\ file \in InitialFiles
    /\ state = loadState(file)

\* the record of a direct call
Called(op, ex, t, ret, wrote) ==
    [n |-> call.n + 1, op |-> op, ex |-> ex, t |-> t, ret |-> ret, wrote |-> wrote,
     pop |-> call.op, pex |-> call.ex, pt |-> call.t]

\* stateService.getLastSyncTimestamp(ex) is called
GetLastSync(ex) ==
    /\ call.n < MaxCalls
    /\ \E at \in Times :
        /\ Elapse(at)
        /\ call' = Called("get", ex, 0, getLastSyncTimestamp(ex, at), FALSE)
    /\ UNCHANGED <<state, file>>
    /\ UNCHANGED <<workerVars, cacheVars>>

\* stateService.updateLastSyncTimestamp(ex, t) is called
UpdateLastSync(ex, t) ==
    /\ call.n < MaxCalls
    /\ updateLastSyncTimestamp(ex, t)
    /\ call' = Called("update", ex, t, 0, Advances(ex, t))
    /\ UNCHANGED <<clock, ticks, workerVars, cacheVars>>

\* the process is started again: the constructor loads state.json
Restart ==
    /\ call.n < MaxCalls
    /\ state' = loadState(file)
    /\ call' = Called("restart", "-", 0, 0, FALSE)
    /\ UNCHANGED <<file, clock, ticks, workerVars, cacheVars>>

NextStore ==
    \/ \E ex \in Exchanges : GetLastSync(ex)
    \/ \E ex \in Exchanges, t \in Stamps : UpdateLastSync(ex, t)
    \/ Restart

SpecStore == InitStore /\ [][NextStore]_vars

\* ---------------------------------------------- the dedup cache alone
\* The caching service as it runs once a module requires it: has and add
\* called in any order, and the callback of its 1-second timer.
\* the exchange names has and add are called with
CacheExchanges == {"bitget", "xt"}

\* the characters of the strings of the model
Chars(str) ==
    CASE str = "bitget" -> <<"b", "i", "t", "g", "e", "t">>
      [] str = "xt"     -> <<"x", "t">>
      [] str = "XT"     -> <<"X", "T">>
      [] str = "gate"   -> <<"g", "a", "t", "e">>
      [] str = "u1"     -> <<"u", "1">>
      [] str = "u2"     -> <<"u", "2">>
      [] OTHER          -> <<>>

\* String.prototype.toLowerCase, on the characters of the model
toLowerCase(chars) ==
    [i \in 1..Len(chars) |->
        CASE chars[i] = "X" -> "x" [] chars[i] = "T" -> "t" [] OTHER -> chars[i]]

\* the decimal digits of a number, as a template string prints it
RECURSIVE NumberString(_)
NumberString(n) ==
    LET digit == <<"0", "1", "2", "3", "4", "5", "6", "7", "8", "9">>[(n % 10) + 1]
    IN  IF n < 10 THEN <<digit>> ELSE NumberString(n \div 10) \o <<digit>>

\* an entry: date and uid are strings (their characters), type is a number
Entry(d, u, ty) == [date |-> d, uid |-> u, type |-> ty]

\* the entries has and add are called with: user 7 on one day in spot and in
\* futures, and user 71 on the same day
CacheEntries ==
    {Entry(<<"0", "1">>, <<"7">>, 1), Entry(<<"0", "1">>, <<"7">>, 2),
     Entry(<<"0", "1">>, <<"7", "1">>, 1)}

\* the calls of has and add: Bitget with every entry, XT with user 7's
CacheCalls ==
    {p \in CacheExchanges \X CacheEntries : p[1] = "bitget" \/ p[2].uid = <<"7">>}

NoEntry == Entry(<<>>, <<>>, 0)

\* setInterval(..., 1000)
CheckInterval == 1000

\* how late a callback of the timer can run (event loop busy), in ms
Lateness == {0, 250}

\* the local time of the timer's first callback, in ms from midnight
StartWalls == {-CheckInterval - l : l \in {0, 250, 500, 750}}

\* (mutant) the key of an XT entry without its type
generateKeyNoType(exchangeName, entry) ==
    Chars(exchangeName) \o <<"-">> \o entry.date \o <<"-">> \o entry.uid

\* CachingService._generateKey: the template strings
\* `${exchangeName}-${entry.date}-${entry.uid}-${entry.type}` for XT and
\* `${exchangeName}-${entry.date}-${entry.uid}` otherwise
generateKey(exchangeName, entry) ==
    IF toLowerCase(Chars(exchangeName)) = <<"x", "t">>
    THEN Chars(exchangeName) \o <<"-">> \o entry.date \o <<"-">> \o entry.uid
            \o <<"-">> \o NumberString(entry.type)
    ELSE Chars(exchangeName) \o <<"-">> \o entry.date \o <<"-">> \o entry.uid

\* CachingService.has
has(exchangeName, entry) == generateKey(exchangeName, entry) \in processedEntries

\* CachingService.add: the set after the call
add(exchangeName, entry) == processedEntries \cup {generateKey(exchangeName, entry)}

\* (mutant) a reset that clears nothing
resetNothing == processedEntries

\* reset: processedEntries.clear(), the set after the call
reset == {}

\* now.hour() === 0 && now.minute() === 0 && now.second() === 0, for a local
\* time in ms from midnight
AtMidnight(w) == w >= 0 /\ w < 1000

InitCache ==
    /\ IdleWorkers
    /\ Undeployed
    /\ IdleSync
    /\ clock = T0
    /\ ticks = 0
    /\ file = NoFile
    /\ state = loadState(file)
    /\ processedEntries = {}
    /\ wall \in StartWalls
    /\ resets = 0
    /\ dropped = {}
    /\ added = {}
    /\ call = NoCall

CacheCalled(op, ex, entry, ret) ==
    [n |-> 0, op |-> op, ex |-> ex, entry |-> entry, ret |-> ret]

\* cachingService.has(ex, entry) is called
CacheHas(ex, entry) ==
    /\ call' = CacheCalled("has", ex, entry, has(ex, entry))
    /\ UNCHANGED <<processedEntries, wall, resets, dropped, added>>
    /\ UNCHANGED <<clock, ticks, state, file, workerVars>>

\* cachingService.add(ex, entry) is called
CacheAdd(ex, entry) ==
    /\ processedEntries' = add(ex, entry)
    /\ added' = added \cup {<<ex, entry>>}
    /\ call' = CacheCalled("add", ex, entry, FALSE)
    /\ UNCHANGED <<wall, resets, dropped>>
    /\ UNCHANGED <<clock, ticks, state, file, workerVars>>

\* scheduleDailyReset: the callback of the 1-second timer runs, on time or late
CheckTimer ==
    /\ wall < MaxWall
    /\ \E late \in Lateness :
        LET now == wall + CheckInterval + late IN
        /\ wall' = now
        /\ IF AtMidnight(now)
           THEN /\ processedEntries' = reset
                /\ dropped' = processedEntries
                /\ added' = {}
                /\ resets' = resets + 1
                /\ call' = CacheCalled("reset", "-", NoEntry, FALSE)
           ELSE UNCHANGED <<processedEntries, dropped, added, resets, call>>
    /\ UNCHANGED <<clock, ticks, state, file, workerVars>>

NextCache ==
    \/ \E p \in CacheCalls : CacheHas(p[1], p[2])
    \/ \E p \in CacheCalls : CacheAdd(p[1], p[2])
    \/ CheckTimer

SpecCache == InitCache /\ [][NextCache]_vars

\* ------------------------------------------------- the NexTradeDAO token
\* Amounts are counted in units of 100 tokens (the contract counts in 10^-18
\* token), the 100 weighted project addresses are NumProjects addresses and a
\* weight is drawn from 1..MaxWeight instead of 1..1000. Time is counted in
\* whole days since startDate.

DAYS_PHASE1 == 20 * 365
DAYS_PHASE2 == 30 * 365
TOTAL_DAYS == DAYS_PHASE1 + DAYS_PHASE2

I1 == 767
I0 == 3836
I0_MINUS_I1 == I0 - I1

TOTAL_SUPPLY == 30000000
TEAM_ALLOCATION == (TOTAL_SUPPLY * 15) \div 100
PRIVATE_ALLOCATION == (TOTAL_SUPPLY * 10) \div 100
COMMUNITY_ALLOCATION == (TOTAL_SUPPLY * 5) \div 100
TEAM_VESTING_MONTHS == 20 * 12
PRIVATE_VESTING_MONTHS == 10 * 12
COMMUNITY_VESTING_MONTHS == 20 * 12

\* SECONDS_PER_MONTH / SECONDS_PER_DAY
DAYS_PER_MONTH == 30

\* ERC20Capped(3_000_000_000 * TOKEN_UNIT)
cap == TOTAL_SUPPLY

\* the weighted project addresses (100 in the contract)
NumProjects == 2

\* the largest weight (1000 in the contract)
MaxWeight == 2

\* how deep the calls of one transaction can nest before the EVM gives up
\* (stack of 1024 words, gas)
StackLimit == 3

\* address(0)
Zero == "0x0"

TokenAccounts == {"owner", "user1", "project0", "project1", "team", "private", "community"}

\* projectAddresses as the deployment sets it: the weighted addresses, then
\* team, private and community
InitialProjects ==
    [i \in 0..(NumProjects + 2) |->
        <<"project0", "project1", "team", "private", "community">>[i + 1]]

\* the weights of one _distributeAndMint: keccak256 of timestamp, address and
\* salt, any value of the range
Weights == [0..(NumProjects - 1) -> 1..MaxWeight]

\* The schedule's functions are written over the two rates r.i0 and r.i1, so
\* that they can be evaluated in the unit of the contract's state below (100
\* tokens) and in a finer one, in which the issuance of two consecutive days
\* differs by at least one unit as it does in the contract's unit of 10^-18
\* token.

\* I0 and I1 in units of u tokens: I1 rounded down and I0 rounded up, as the
\* contract's values are
Rates(u) == [i0 |-> 383561 \div u + 1, i1 |-> 76712 \div u]

\* (mutant) the first phase's line for every day of the schedule
getDailyIssuanceOnePhase(r, day) ==
    IF day >= TOTAL_DAYS THEN 0
    ELSE r.i0 - ((r.i0 - r.i1) * day) \div DAYS_PHASE1

\* getDailyIssuance with the rates r
getDailyIssuanceIn(r, day) ==
    IF day >= TOTAL_DAYS THEN 0
    ELSE IF day < DAYS_PHASE1 THEN r.i0 - ((r.i0 - r.i1) * day) \div DAYS_PHASE1
    ELSE r.i1 - (r.i1 * (day - DAYS_PHASE1)) \div DAYS_PHASE2

\* numTerms * (firstTerm + lastTerm) / 2 over the days s..e of one phase
SeriesSumIn(r, s, e) ==
    ((e - s + 1) * (getDailyIssuanceIn(r, s) + getDailyIssuanceIn(r, e))) \div 2

\* (mutant) one series over the whole range, whatever the phases
calculateMintAmountOneSeries(r, startDay, endDay) ==
    IF startDay > endDay THEN 0
    ELSE SeriesSumIn(r, startDay,
                     IF endDay >= TOTAL_DAYS THEN TOTAL_DAYS - 1 ELSE endDay)

\* _calculateMintAmount with the rates r
calculateMintAmountIn(r, startDay, endDay) ==
    IF startDay > endDay THEN 0
    ELSE LET e == IF endDay >= TOTAL_DAYS THEN TOTAL_DAYS - 1 ELSE endDay
         IN  IF e < DAYS_PHASE1 THEN SeriesSumIn(r, startDay, e)
             ELSE IF startDay >= DAYS_PHASE1 THEN SeriesSumIn(r, startDay, e)
             ELSE SeriesSumIn(r, startDay, DAYS_PHASE1 - 1)
                  + SeriesSumIn(r, DAYS_PHASE1, e)

\* the functions in the unit of the contract's state
getDailyIssuance(day) == getDailyIssuanceIn([i0 |-> I0, i1 |-> I1], day)

SeriesSum(s, e) == SeriesSumIn([i0 |-> I0, i1 |-> I1], s, e)

calculateMintAmount(startDay, endDay) ==
    calculateMintAmountIn([i0 |-> I0, i1 |-> I1], startDay, endDay)

\* a reverted call: no storage
Revert == [ok |-> FALSE]

\* F of the value of x, with x evaluated once (a local variable of the code)
Bind(x, F(_)) == CHOOSE r \in {F(v) : v \in {x}} : TRUE

\* ERC20._update: move value from `from` to `to`; address(0) as `from` mints,
\* as `to` burns
erc20Update(st, from, to, value) ==
    IF ~st.ok THEN st
    ELSE IF from # Zero /\ st.bal[from] < value THEN Revert
    ELSE LET s1 == IF from = Zero THEN [st EXCEPT !.supply = @ + value]
                   ELSE [st EXCEPT !.bal[from] = @ - value]
         IN  IF to = Zero THEN [s1 EXCEPT !.supply = @ - value]
             ELSE [s1 EXCEPT !.bal[to] = @ + value]

\* (mutant) a mint that is not held against the cap
cappedUpdateNoCap(st, from, to, value) == erc20Update(st, from, to, value)

\* ERC20Capped._update: a mint that takes totalSupply over the cap reverts
cappedUpdate(st, from, to, value) ==
    Bind(erc20Update(st, from, to, value),
         LAMBDA s1 : IF s1.ok /\ from = Zero /\ s1.supply > cap THEN Revert ELSE s1)

RECURSIVE SumWeights(_, _)
SumWeights(w, i) == IF i < 0 THEN 0 ELSE w[i] + SumWeights(w, i - 1)

RECURSIVE update(_, _, _, _, _, _)
RECURSIVE mint(_, _, _, _, _)
RECURSIVE mintProjects(_, _, _, _, _, _, _)
RECURSIVE distributeAndMint(_, _, _, _)
RECURSIVE triggerMint(_, _, _)
RECURSIVE vest(_, _, _, _, _, _, _, _)
RECURSIVE mintVesting(_, _, _, _, _)
RECURSIVE triggerVesting(_, _, _)

\* ERC20._mint: _update(address(0), account, value), one call deeper
mint(st, account, value, blk, depth) ==
    IF ~st.ok THEN st
    ELSE IF account = Zero THEN Revert
    ELSE update(st, Zero, account, value, blk, depth + 1)

\* the loop over the weighted addresses from index i on, and the remainder
\* for the last of them
mintProjects(st, i, projectTotalShare, mintedForProjects, totalWeight, blk, depth) ==
    IF ~st.ok THEN st
    ELSE IF i < NumProjects - 1
    THEN LET share == (projectTotalShare * blk.w[i]) \div totalWeight
         IN  IF share > 0
             THEN Bind(mint(st, st.proj[i], share, blk, depth),
                       LAMBDA s1 : mintProjects(s1, i + 1, projectTotalShare,
                                                mintedForProjects + share,
                                                totalWeight, blk, depth))
             ELSE mintProjects(st, i + 1, projectTotalShare, mintedForProjects,
                               totalWeight, blk, depth)
    ELSE LET remainingShare == projectTotalShare - mintedForProjects
         IN  IF remainingShare > 0
             THEN mint(st, st.proj[NumProjects - 1], remainingShare, blk, depth)
             ELSE st

distributeAndMint(st, totalAmount, blk, depth) ==
    IF ~st.ok THEN st
    ELSE LET ownerShare == (totalAmount * 10) \div 100
             projectTotalShare == totalAmount - ownerShare
             dust == totalAmount % 100
         IN  Bind(IF ownerShare + dust > 0
                  THEN mint(st, st.owner, ownerShare + dust, blk, depth)
                  ELSE st,
                  LAMBDA s1 :
                    IF ~s1.ok \/ projectTotalShare = 0 THEN s1
                    ELSE Bind([s1 EXCEPT !.nonce = @ + 1],
                              LAMBDA s2 : mintProjects(s2, 0, projectTotalShare, 0,
                                              SumWeights(blk.w, NumProjects - 1),
                                              blk, depth)))

triggerMint(st, blk, depth) ==
    IF ~st.ok THEN st
    ELSE LET currentDay == blk.day
             endMintDay == IF currentDay < TOTAL_DAYS THEN currentDay ELSE TOTAL_DAYS - 1
         IN  IF currentDay <= st.lastMintDay \/ endMintDay <= st.lastMintDay THEN st
             ELSE LET totalToMint == calculateMintAmount(st.lastMintDay + 1, endMintDay)
                  IN  Bind(IF totalToMint > 0
                           THEN distributeAndMint(st, totalToMint, blk, depth)
                           ELSE st,
                           LAMBDA s1 : IF s1.ok THEN [s1 EXCEPT !.lastMintDay = endMintDay]
                                       ELSE s1)

\* one of the three blocks of _mintVesting
vest(st, startMonth, endMonth, allocation, vestingMonths, idx, blk, depth) ==
    IF ~st.ok THEN st
    ELSE IF startMonth < vestingMonths
    THEN LET e == IF endMonth < vestingMonths THEN endMonth ELSE vestingMonths - 1
             months == e - startMonth + 1
             amount == (allocation * months) \div vestingMonths
         IN  IF amount > 0 THEN mint(st, st.proj[idx], amount, blk, depth) ELSE st
    ELSE st

mintVesting(st, startMonth, endMonth, blk, depth) ==
    IF startMonth > endMonth THEN st
    ELSE Bind(vest(st, startMonth, endMonth, TEAM_ALLOCATION,
                   TEAM_VESTING_MONTHS, NumProjects, blk, depth),
              LAMBDA s1 :
                Bind(vest(s1, startMonth, endMonth, PRIVATE_ALLOCATION,
                          PRIVATE_VESTING_MONTHS, NumProjects + 1, blk, depth),
                     LAMBDA s2 :
                       vest(s2, startMonth, endMonth, COMMUNITY_ALLOCATION,
                            COMMUNITY_VESTING_MONTHS, NumProjects + 2, blk, depth)))

triggerVesting(st, blk, depth) ==
    IF ~st.ok THEN st
    ELSE LET currentMonth == blk.day \div DAYS_PER_MONTH
         IN  IF currentMonth <= st.lastVestingMonth THEN st
             ELSE Bind(mintVesting(st, st.lastVestingMonth + 1, currentMonth, blk, depth),
                       LAMBDA s1 : IF s1.ok
                                   THEN [s1 EXCEPT !.lastVestingMonth = currentMonth]
                                   ELSE s1)

\* NexTradeDAO._update, the depth-th nested call of it in the transaction:
\* outside the constructor _triggerMint and _triggerVesting run first, and
\* every _mint they make calls _update again
update(st, from, to, value, blk, depth) ==
    IF ~st.ok THEN st
    ELSE IF depth > StackLimit THEN Revert
    ELSE IF st.initializing THEN cappedUpdate(st, from, to, value)
    ELSE Bind(triggerMint(st, blk, depth),
              LAMBDA s1 : Bind(triggerVesting(s1, blk, depth),
                               LAMBDA s2 : cappedUpdate(s2, from, to, value)))

\* the constructor, run on day initialDay of the schedule
constructor(initialDay, initialOwner, w) ==
    IF ~(initialDay < TOTAL_DAYS) THEN Revert
    ELSE LET blk == [day |-> initialDay, w |-> w]
             st0 == [ok |-> TRUE, supply |-> 0, bal |-> [a \in TokenAccounts |-> 0],
                     lastMintDay |-> 0, lastVestingMonth |-> 0, owner |-> initialOwner,
                     proj |-> InitialProjects, nonce |-> 0, initializing |-> TRUE]
             initialMintAmount == calculateMintAmount(0, initialDay - 1)
             initialMonths == initialDay \div DAYS_PER_MONTH
             dayZeroAmount == getDailyIssuance(0)
             Vested(b) ==
                IF b.ok /\ initialMonths > 0
                THEN Bind(mintVesting(b, 0, initialMonths - 1, blk, 0),
                          LAMBDA c : IF c.ok
                                     THEN [c EXCEPT !.lastVestingMonth = initialMonths - 1]
                                     ELSE c)
                ELSE b
             Minted(a) ==
                Bind(IF a.ok THEN [a EXCEPT !.lastMintDay = initialDay - 1] ELSE a, Vested)
             Built ==
                IF initialDay > 0
                THEN Bind(IF initialMintAmount > 0
                          THEN distributeAndMint(st0, initialMintAmount, blk, 0)
                          ELSE st0, Minted)
                ELSE IF dayZeroAmount > 0
                     THEN distributeAndMint(st0, dayZeroAmount, blk, 0)
                     ELSE st0
         IN  Bind(Built, LAMBDA s1 : IF s1.ok THEN [s1 EXCEPT !.initializing = FALSE]
                                     ELSE s1)

\* (mutant) a function anyone can call
onlyOwnerAnyone(st, sender, body) == body

\* Ownable.onlyOwner: the body runs for the owner, other callers revert
onlyOwner(st, sender, body) == IF sender = st.owner THEN body ELSE Revert

\* the days of the schedule on which the contract is deployed
InitialDays == {0, 10, 45, DAYS_PHASE1, TOTAL_DAYS - 1}

\* the accounts that send transactions, the recipients and the amounts
TxSenders == {"owner", "user1"}
Recipients == {"owner", "user1", Zero}
Values == {1, 500}

\* the address lists setProjectAddresses is called with
NewProjects == {InitialProjects, [InitialProjects EXCEPT ![0] = "user1"]}

\* how far the chain's time moves between two transactions, in days
DaySteps == {1, 30}

InitToken ==
    /\ IdleWorkers
    /\ IdleCache
    /\ IdleSync
    /\ clock = T0
    /\ ticks = 0
    /\ file = NoFile
    /\ state = loadState(file)
    /\ \E d \in InitialDays, w \in Weights :
          \E st \in {constructor(d, "owner", w)} :
              st.ok /\ tok = st /\ today = d
    /\ advances = 0
    /\ tx = NoTx

tokenFrame == <<mode, clock, ticks, state, file, tickerCache, nextFire, cycles, fetched,
                last, workers, processedEntries, wall, resets, dropped, added, call,
                faulty, env, boot, gntx>>

\* a transaction is mined: its changes are kept unless it reverted
Mined(op, sender, to, value, st) ==
    /\ tx.n < MaxTx
    /\ tx' = [n |-> tx.n + 1, op |-> op, sender |-> sender, to |-> to,
              value |-> value, ok |-> st.ok]
    /\ tok' = IF st.ok THEN st ELSE tok
    /\ UNCHANGED <<today, advances, tokenFrame>>

\* ERC20.transfer(to, value) sent by `sender`
Transfer(sender, to, value) ==
    \E w \in Weights :
        \E st \in {IF to = Zero THEN Revert
                    ELSE update(tok, sender, to, value, [day |-> today, w |-> w], 1)} :
            Mined("transfer", sender, to, value, st)

\* ERC20Burnable.burn(value) sent by `sender`
Burn(sender, value) ==
    \E w \in Weights :
        \E st \in {update(tok, sender, Zero, value, [day |-> today, w |-> w], 1)} :
            Mined("burn", sender, Zero, value, st)

\* setProjectAddresses sent by `sender`
SetProjectAddresses(sender, newAddresses) ==
    \E st \in {onlyOwner(tok, sender, [tok EXCEPT !.proj = newAddresses])} :
        Mined("setProjectAddresses", sender, newAddresses[0], 0, st)

\* Ownable.transferOwnership(newOwner) sent by `sender`
TransferOwnership(sender, newOwner) ==
    \E st \in {onlyOwner(tok, sender,
                          IF newOwner = Zero THEN Revert
                          ELSE [tok EXCEPT !.owner = newOwner])} :
        Mined("transferOwnership", sender, newOwner, 0, st)

\* blocks are mined and the chain's time moves on
AdvanceTime(n) ==
    /\ advances < MaxAdvances
    /\ today' = today + n
    /\ advances' = advances + 1
    /\ UNCHANGED <<tok, tx, tokenFrame>>

NextToken ==
    \/ \E sender \in TxSenders, to \in Recipients, value \in Values :
          Transfer(sender, to, value)
    \/ \E sender \in TxSenders, value \in Values : Burn(sender, value)
    \/ \E sender \in TxSenders, newAddresses \in NewProjects :
          SetProjectAddresses(sender, newAddresses)
    \/ \E sender \in TxSenders, newOwner \in Recipients :
          TransferOwnership(sender, newOwner)
    \/ \E n \in DaySteps : AdvanceTime(n)

SpecToken == InitToken /\ [][NextToken]_vars

\* --------------------------------------------- the issuance schedule
\* getDailyIssuance and _calculateMintAmount called for given days, in units
\* of FineUnit tokens.
Fine == Rates(FineUnit)

\* the days around the start, the phase boundary and the end of the schedule
ScheduleDays ==
    (0..MaxSpan)
    \cup ((DAYS_PHASE1 - MaxSpan)..(DAYS_PHASE1 + MaxSpan))
    \cup ((TOTAL_DAYS - MaxSpan)..(TOTAL_DAYS - 1))

\* the ranges _calculateMintAmount is called with: short ones from each of
\* those days, and long ones up to the end of a phase
ScheduleRanges ==
    {<<a, b>> \in ScheduleDays \X (0..(TOTAL_DAYS - 1)) :
        /\ a <= b
        /\ b - a <= MaxSpan \/ b \in {DAYS_PHASE1 - 1, DAYS_PHASE1, TOTAL_DAYS - 1}}

Asked(op, a, b) == [op |-> op, s |-> a, e |-> b, ret |-> 0, done |-> FALSE]

InitSchedule ==
    /\ IdleWorkers
    /\ IdleCache
    /\ IdleSync
    /\ clock = T0
    /\ ticks = 0
    /\ file = NoFile
    /\ state = loadState(file)
    /\ tok = NoToken /\ today = 0 /\ advances = 0
    /\ tx \in {Asked("getDailyIssuance", d, d) : d \in 0..(TOTAL_DAYS + MaxSpan)}
             \cup {Asked("calculateMintAmount", p[1], p[2]) : p \in ScheduleRanges}

GetDailyIssuance ==
    /\ tx.op = "getDailyIssuance" /\ ~tx.done
    /\ tx' = [tx EXCEPT !.ret = getDailyIssuanceIn(Fine, tx.s), !.done = TRUE]
    /\ UNCHANGED <<tok, today, advances, tokenFrame>>

CalculateMintAmount ==
    /\ tx.op = "calculateMintAmount" /\ ~tx.done
    /\ tx' = [tx EXCEPT !.ret = calculateMintAmountIn(Fine, tx.s, tx.e), !.done = TRUE]
    /\ UNCHANGED <<tok, today, advances, tokenFrame>>

NextSchedule == GetDailyIssuance \/ CalculateMintAmount

SpecSchedule == InitSchedule /\ [][NextSchedule]_vars

\* ------------------------------------------------ the GNTX sync service
\* gntx-sync-service/index.js for one user: the NFT contract mints and burns
\* and emits NFTMinted / NFTBurned, ethers calls the listener of each event,
\* and every listener is an async function that awaits userBindings, then
\* balanceOf, then the PUT to the backend. Listeners are not awaited by the
\* emitter, so several run at a time; each action is the code between two
\* awaits. The service has run performInitialSync and registered its
\* listeners: the backend holds the chain's balance.
\*   chain     balanceOf(user, 1) on the chain
\*   backend   gntx_balance of the user in the backend
\*   bound     whether userBindings(user) is an email
\*   events    the events the contract has emitted
\*   handlers  per event its listener: pc, and the balance it read
\*   failed    whether a request of a listener failed
GntxEvents == [kind : {"NFTMinted", "NFTBurned"}, tokenId : {1, 2}, amount : {1, 2}]

\* ethers.formatUnits(value, 0): the decimal digits
formatUnits(value) == NumberString(value)

\* parseFloat of a string of decimal digits
RECURSIVE parseFloat(_)
parseFloat(chars) ==
    IF chars = <<>> THEN 0
    ELSE parseFloat(SubSeq(chars, 1, Len(chars) - 1)) * 10
         + (CHOOSE d \in 0..9 : NumberString(d) = <<chars[Len(chars)]>>)

InitGntx ==
    /\ IdleWorkers
    /\ IdleCache
    /\ Undeployed
    /\ clock = T0
    /\ ticks = 0
    /\ file = NoFile
    /\ state = loadState(file)
    /\ \E b \in 0..1, e \in BOOLEAN :
          gntx = [NoSync EXCEPT !.chain = b, !.backend = b, !.bound = e]

gntxFrame == <<tok, today, advances, tx, mode, clock, ticks, state, file, tickerCache,
               nextFire, cycles, fetched, last, workers, processedEntries, wall,
               resets, dropped, added, call, faulty, env, boot>>

\* the contract mints or burns for the user and emits the event
Emit(ev) ==
    /\ Len(gntx.events) < MaxEvents
    /\ (ev.kind = "NFTBurned" /\ ev.tokenId = 1) => gntx.chain >= ev.amount
    /\ gntx' = [gntx EXCEPT
                  !.chain = IF ev.tokenId # 1 THEN @
                            ELSE IF ev.kind = "NFTMinted" THEN @ + ev.amount
                            ELSE @ - ev.amount,
                  !.events = Append(@, ev),
                  !.handlers = Append(@, [pc |-> "pending", read |-> 0])]
    /\ UNCHANGED gntxFrame

\* ethers may call the listener of event i: the event is of the listener's
\* kind and the listeners of the earlier events of that kind have been called
ListenerDue(i, kind) ==
    /\ i \in DOMAIN gntx.events
    /\ gntx.events[i].kind = kind
    /\ gntx.handlers[i].pc = "pending"
    /\ \A j \in 1..(i - 1) :
          gntx.events[j].kind = kind => gntx.handlers[j].pc # "pending"

\* a listener runs to its first await: it returns for a token id other than
\* '1' and asks for the user's binding otherwise
ToFirstAwait(i) ==
    [gntx EXCEPT !.handlers[i].pc =
        IF formatUnits(gntx.events[i].tokenId) # <<"1">> THEN "done"
        ELSE "userBindings"]

handleNFTMinted(i) ==
    /\ ListenerDue(i, "NFTMinted")
    /\ gntx' = ToFirstAwait(i)
    /\ UNCHANGED gntxFrame

handleNFTBurned(i) ==
    /\ ListenerDue(i, "NFTBurned")
    /\ gntx' = ToFirstAwait(i)
    /\ UNCHANGED gntxFrame

\* getUserEmailFromBinding returns: the email, or null when none is bound or
\* the call threw
UserBindingsReturn(i) ==
    /\ i \in DOMAIN gntx.handlers
    /\ gntx.handlers[i].pc = "userBindings"
    /\ \E threw \in BOOLEAN :
          gntx' = IF threw THEN [gntx EXCEPT !.handlers[i].pc = "done", !.failed = TRUE]
                  ELSE IF gntx.bound THEN [gntx EXCEPT !.handlers[i].pc = "balanceOf"]
                  ELSE [gntx EXCEPT !.handlers[i].pc = "done"]
    /\ UNCHANGED gntxFrame

\* what balanceOf(user, 1) returns to listener i: the balance on the chain
\* when the call is served
BalanceServed(i) == gntx.chain

\* balanceOf returns: the listener formats the balance and calls
\* updateBackendGntxBalance, which sends the PUT
BalanceOfReturn(i) ==
    /\ i \in DOMAIN gntx.handlers
    /\ gntx.handlers[i].pc = "balanceOf"
    /\ \E threw \in BOOLEAN :
          gntx' = IF threw THEN [gntx EXCEPT !.handlers[i].pc = "done", !.failed = TRUE]
                  ELSE [gntx EXCEPT !.handlers[i] =
                           [pc |-> "put",
                            read |-> parseFloat(formatUnits(BalanceServed(i)))]]
    /\ UNCHANGED gntxFrame

\* updateBackendGntxBalance: the backend stores the balance of the PUT and
\* answers, or the PUT fails and the error is logged
updateBackendGntxBalance(i) ==
    /\ i \in DOMAIN gntx.handlers
    /\ gntx.handlers[i].pc = "put"
    /\ \E ok \in BOOLEAN :
          gntx' = IF ok THEN [gntx EXCEPT !.handlers[i].pc = "done",
                                          !.backend = gntx.handlers[i].read]
                  ELSE [gntx EXCEPT !.handlers[i].pc = "done", !.failed = TRUE]
    /\ UNCHANGED gntxFrame

NextGntx ==
    \/ \E ev \in GntxEvents : Emit(ev)
    \/ \E i \in 1..MaxEvents : handleNFTMinted(i)
    \/ \E i \in 1..MaxEvents : handleNFTBurned(i)
    \/ \E i \in 1..MaxEvents : UserBindingsReturn(i)
    \/ \E i \in 1..MaxEvents : BalanceOfReturn(i)
    \/ \E i \in 1..MaxEvents : updateBackendGntxBalance(i)

SpecGntx == InitGntx /\ [][NextGntx]_vars

\* -------------------------------------------------------------- claims
Running == {c \in DOMAIN cycles : cycles[c].pc # "done"}

\* the cycle that returns in this step, if one does
Returns(c) == c \in DOMAIN cycles /\ cycles[c].pc # "done" /\ cycles'[c].pc = "done"

\* C1: for every exchange the stored lastSyncTimestamp never decreases, whatever
\* the order in which overlapping cycles call updateLastSyncTimestamp.
C1_WatermarkNeverDecreases ==
    [][\A ex \in DOMAIN state : ex \in DOMAIN state' /\ state'[ex] >= state[ex]]_vars

\* C1 witness: a cycle has called updateLastSyncTimestamp with a timestamp older
\* than the stored one (it finished after a cycle that started later).
C1_Witness ==
    /\ last.updated
    /\ last.ex \in DOMAIN state
    /\ last.now < state[last.ex]

\* C2: in normal mode a cycle whose exchange request throws returns without
\* calling updateLastSyncTimestamp: the watermark in memory and on disk is the
\* same after the step as before.
C2_ThrownFetchKeepsWatermark ==
    [][\A c \in DOMAIN cycles :
          (mode = "normal" /\ cycles[c].pc \in {"fetch", "fetch2"} /\ Returns(c)
             /\ last'.threw)
          => (state' = state /\ file' = file /\ ~last'.updated)]_vars

\* C2 witness: in normal mode a cycle ended in the catch block with a stored
\* watermark present.
C2_Witness ==
    /\ mode = "normal"
    /\ last.threw
    /\ ~last.updated
    /\ last.ex \in DOMAIN state

\* C3 (as claimed): in normal mode a cycle whose request was answered with a
\* non-success envelope does not advance the watermark.
C3_FailedEnvelopeKeepsWatermark ==
    (mode = "normal" /\ last.envFail) => ~last.updated

\* C4 (as claimed): within one cycle no two records handed to sendTradeData
\* have the same dedup key.
SentEntry(rec) == Entry(NumberString(rec.date), Chars(rec.uid), rec.type)

C4_KeySubmittedOnce ==
    \A c \in Running :
        \A i, j \in 1..Len(cycles[c].sent) :
            i < j => generateKey(cycles[c].ex, SentEntry(cycles[c].sent[i]))
                       # generateKey(cycles[c].ex, SentEntry(cycles[c].sent[j]))

\* C5 (as claimed): at most one cycle of an exchange is running at any time.
C5_SingleFlight ==
    \A c1, c2 \in Running : cycles[c1].ex = cycles[c2].ex => c1 = c2

\* C5 (amended): two cycles of one exchange that are running at once were
\* started at least one timer interval apart.
C5_OverlapOnlyAfterInterval ==
    \A c1, c2 \in Running :
        (c1 < c2 /\ cycles[c1].ex = cycles[c2].ex)
        => cycles[c2].begun - cycles[c1].begun >= Interval(cycles[c1].ex)

\* C5 witness: two cycles of one exchange are running at once.
C5_Witness ==
    \E c1, c2 \in Running : c1 < c2 /\ cycles[c1].ex = cycles[c2].ex

\* C6: in normal mode a cycle in which a sendTradeData call failed has still
\* called sendTradeData for every record it submits and has advanced the
\* watermark when it returns.
C6_SendFailureDoesNotStopCycle ==
    (mode = "normal" /\ last.failedAt > 0)
    => (last.updated /\ ~last.threw /\ last.calls = last.sendable)

\* C6 witness: record 2 of 3 failed, all 3 were submitted and the watermark
\* was advanced.
C6_Witness ==
    /\ mode = "normal"
    /\ last.failedAt = 2
    /\ last.calls = 3
    /\ last.updated

\* C7: in test mode no step changes the watermark in memory or on disk, no
\* cycle calls updateLastSyncTimestamp and no sendTradeData call issues the POST.
C7_DryRunWritesNothing ==
    /\ [][mode = "test" => (state' = state /\ file' = file)]_vars
    /\ [](mode = "test" =>
            /\ ~last.updated
            /\ \A c \in Running :
                 \A i \in 1..Len(cycles[c].sent) : ~cycles[c].sent[i].posted)

\* C7 witness: in test mode a cycle has gone through sendTradeData calls and
\* returned.
C7_Witness ==
    /\ mode = "test"
    /\ last.calls >= 2
    /\ ~last.threw

\* C8: within a cycle the sendTradeData calls are in ascending order of the
\* records' timestamps, and every call but the last has returned.
C8_AscendingSequentialSends ==
    \A c \in Running :
        LET sent == cycles[c].sent IN
        /\ \A i \in 1..(Len(sent) - 1) : sent[i].ts <= sent[i + 1].ts
        /\ \A i \in 1..(Len(sent) - 1) : sent[i].returned
        /\ sent # <<>> => (cycles[c].pc = "send" /\ ~sent[Len(sent)].returned)

\* C8 witness: a response that was not in order has been submitted as 1, 3, 5.
C8_Witness ==
    \E c \in Running :
        /\ cycles[c].unsorted
        /\ Len(cycles[c].sent) = 3
        /\ cycles[c].sent[1].ts = 1
        /\ cycles[c].sent[2].ts = 3
        /\ cycles[c].sent[3].ts = 5

\* C9 (as claimed): no record handed to sendTradeData comes from an item whose
\* parsed fee is less than or equal to 0.
C9_NoSendForNonPositiveFee ==
    \A c \in Running :
        \A i \in 1..Len(cycles[c].sent) : cycles[c].sent[i].fee > 0

\* C10 (as claimed): every record handed to sendTradeData has feeUsdt > 0.
C10_SubmittedFeeUsdtPositive ==
    \A c \in Running :
        \A i \in 1..Len(cycles[c].sent) : cycles[c].sent[i].feeUsdt > 0

\* a cycle that has sent its rebate request
Requested(c) == c \in Running /\ cycles[c].pc \in {"fetch", "fetch2", "send"}

\* the summary of a cycle that sent its rebate request and got a success
\* envelope for it
Succeeded(l) == l.now > 0 /\ ~l.noop /\ ~l.threw /\ ~l.envFail

\* C11 (as claimed): in normal mode a cycle to which getLastSyncTimestamp
\* returned a watermark greater than or equal to its now has sent no request to
\* the exchange, has called sendTradeData zero times and has not called
\* updateLastSyncTimestamp.
C11_NoOpWindowDoesNothing ==
    (mode = "normal" /\ last.now > 0 /\ last.read >= last.now)
    => (last.requests = 0 /\ last.calls = 0 /\ ~last.updated)

\* C12 (as claimed): in normal mode, when a cycle whose request succeeded with
\* zero records has returned, the stored watermark is the cycle's now.
C12_ZeroRecordsAdvanceToEnd ==
    (mode = "normal" /\ Succeeded(last) /\ last.records = 0)
    => (last.ex \in DOMAIN state /\ state[last.ex] = last.now)

\* C12 (amended): in normal mode the step in which a cycle whose request
\* succeeded with zero records returns leaves the stored watermark at the
\* cycle's now, or at the stored value when that is greater.
C12_ZeroRecordsAdvanceToMax ==
    [][\A c \in DOMAIN cycles :
          (mode = "normal" /\ Returns(c) /\ Succeeded(last') /\ last'.records = 0)
          => /\ cycles[c].ex \in DOMAIN state'
             /\ state'[cycles[c].ex] =
                    IF cycles[c].ex \in DOMAIN state /\ state[cycles[c].ex] > last'.now
                    THEN state[cycles[c].ex] ELSE last'.now]_vars

\* C12 witness: a cycle with zero records has moved the watermark to its now.
C12_Witness ==
    /\ mode = "normal"
    /\ Succeeded(last) /\ last.records = 0
    /\ last.ex \in DOMAIN state
    /\ state[last.ex] = last.now
    /\ last.read < last.now

\* the start of a Gate window for a watermark and an end in seconds, as C13
\* states it
C13Start(read, end) ==
    IF end - (read \div UnitsPerSec) > GateWindowCap
    THEN end - GateWindowCap ELSE read \div UnitsPerSec

\* C13 (as claimed): a Gate request in normal mode starts 30 days before its
\* end when the watermark is older, at the watermark otherwise; when a Gate
\* cycle whose request succeeded has returned, the stored watermark is its now.
C13_ClampAndAdvanceToEnd ==
    /\ \A c \in DOMAIN cycles :
          (mode = "normal" /\ Requested(c) /\ cycles[c].ex = "gate")
          => cycles[c].start = C13Start(cycles[c].read, cycles[c].end)
    /\ (mode = "normal" /\ last.ex = "gate" /\ Succeeded(last))
       => ("gate" \in DOMAIN state /\ state["gate"] = last.now)

\* C13 (amended): the same window rule; the step in which a Gate cycle whose
\* request succeeded returns leaves the stored watermark at the cycle's now
\* (never at the clamped start), or at the stored value when that is greater.
C13_ClampAndAdvanceToMax ==
    /\ [](\A c \in DOMAIN cycles :
            (mode = "normal" /\ Requested(c) /\ cycles[c].ex = "gate")
            => cycles[c].start = C13Start(cycles[c].read, cycles[c].end))
    /\ [][\A c \in DOMAIN cycles :
            (mode = "normal" /\ cycles[c].ex = "gate" /\ Returns(c)
               /\ Succeeded(last'))
            => /\ "gate" \in DOMAIN state'
               /\ state'["gate"] =
                      IF "gate" \in DOMAIN state /\ state["gate"] > last'.now
                      THEN state["gate"] ELSE last'.now]_vars

\* C13 witness: a Gate cycle whose watermark was more than 30 days old has
\* requested the last 30 days and moved the watermark to its now.
C13_Witness ==
    /\ mode = "normal"
    /\ last.ex = "gate" /\ Succeeded(last)
    /\ (last.now \div UnitsPerSec) - (last.read \div UnitsPerSec) > GateWindowCap
    /\ last.start = (last.now \div UnitsPerSec) - GateWindowCap
    /\ last.start > last.read \div UnitsPerSec
    /\ "gate" \in DOMAIN state
    /\ state["gate"] = last.now

\* C14 (as claimed): a Gate cycle sends its rebate request only when its own
\* ticker request succeeded and yielded a USDT pair.
C14_FailedSnapshotAbortsCycle ==
    \A c \in DOMAIN cycles :
        (Requested(c) /\ cycles[c].ex = "gate")
        => (cycles[c].snapOk /\ DOMAIN cycles[c].table # {})

\* C15 (as claimed): all records of a Gate cycle are converted with one price
\* table, the one the cycle's own ticker request built.
C15_OneTablePerCycle ==
    \A c \in DOMAIN cycles :
        (Requested(c) /\ cycles[c].ex = "gate")
        => \A i \in 1..Len(cycles[c].sent) :
              /\ cycles[c].sent[i].table = cycles[c].sent[1].table
              /\ cycles[c].snapOk => cycles[c].sent[i].table = cycles[c].table

\* C18 (as claimed): in normal mode the cycle that follows a cycle whose
\* request failed sends its request with the same start.
C18_RetrySameWindow ==
    [][\A c \in DOMAIN cycles' :
          (/\ mode = "normal"
           /\ cycles'[c].pc = "fetch"
           /\ (c \notin DOMAIN cycles \/ cycles[c].pc = "tickers")
           /\ last.idx = c - 1
           /\ last.ex = cycles'[c].ex
           /\ (last.threw \/ last.envFail))
          => cycles'[c].start = last.start]_vars

\* C16: when updateLastSyncTimestamp(ex, t2) is called right after
\* updateLastSyncTimestamp(ex, t1) with t2 <= t1, the second call changes neither
\* the state in memory nor the state file and does not call saveState; the
\* stored value stays t1 when the first call stored it.
C16_SecondAdvanceChangesNothing ==
    [][(/\ call'.n = call.n + 1
        /\ call.op = "update" /\ call'.op = "update"
        /\ call'.ex = call.ex
        /\ call'.t <= call.t)
       => (/\ state' = state
           /\ file' = file
           /\ ~call'.wrote
           /\ state'[call.ex] >= call.t
           /\ call.wrote => state'[call.ex] = call.t)]_vars

\* C16 witness: update(ex, t1) stored t1, then update(ex, t2) with t2 < t1 was
\* called.
C16_Witness ==
    /\ call.op = "update" /\ call.pop = "update"
    /\ call.pex = call.ex
    /\ call.t < call.pt
    /\ call.ex \in DOMAIN state
    /\ state[call.ex] = call.pt
    /\ ~call.wrote

\* C17: getLastSyncTimestamp(ex) returns the stored value when there is one and
\* the time of the call minus 10 minutes when there is none, and the call
\* changes neither the state in memory nor the state file.
C17_GetReturnsStoredOrDefault ==
    /\ [](call.op = "get" =>
            call.ret = IF call.ex \in DOMAIN state THEN state[call.ex]
                       ELSE clock - TenMinutes)
    /\ [][(call'.n = call.n + 1 /\ call'.op = "get")
          => (state' = state /\ file' = file)]_vars

\* C17 witness: two calls in a row for an exchange with no stored value: the
\* second still gets the default, 10 minutes before the (later) time of the call.
C17_Witness ==
    /\ call.op = "get" /\ call.pop = "get"
    /\ call.pex = call.ex
    /\ call.ex \notin DOMAIN state
    /\ clock > T0
    /\ call.ret = clock - TenMinutes

\* C19 (as claimed): once the timer has run after the second of midnight, reset
\* has run exactly once.
C19_OneResetPerMidnight ==
    wall >= CheckInterval => resets = 1

\* C20: right after the reset has returns false for every record; right after
\* add(ex, entry) has(ex, entry) returns true.
C20_ResetForgetsAddRemembers ==
    /\ call.op = "reset" =>
          \A ex \in CacheExchanges, entry \in CacheEntries : ~has(ex, entry)
    /\ call.op = "add" => has(call.ex, call.entry)

\* C20 witness: a record added before the reset has been added again after it.
C20_Witness ==
    /\ call.op = "add"
    /\ resets = 1
    /\ generateKey(call.ex, call.entry) \in dropped
    /\ has(call.ex, call.entry)

\* C22 (as claimed): when updateLastSyncTimestamp(ex, t) is called with t
\* greater than the stored value and the write of the state file fails, the
\* call returns, the value in memory is t and the state file has the content
\* it had before.
C22_FailedWriteKeepsFile ==
    [][(/\ call'.n = call.n + 1
        /\ call'.op = "update"
        /\ call'.ex \in DOMAIN state
        /\ call'.t > state[call'.ex]
        /\ file' # stringify(state'))
       => (/\ state'[call'.ex] = call'.t
           /\ file' = file)]_vars

\* C25: when the process is started again right after a call of
\* updateLastSyncTimestamp(ex, t) that stored t and wrote the state file, the
\* loaded state has t for ex and, for every other exchange, the value the
\* process had in memory.
C25_RestartKeepsPersisted ==
    [][(/\ call'.n = call.n + 1
        /\ call'.op = "restart"
        /\ call.op = "update" /\ call.wrote
        /\ file = stringify(state))
       => (/\ call.ex \in DOMAIN state'
           /\ state'[call.ex] = call.t
           /\ state' = state)]_vars

\* C25 witness: after an update that was written and a restart, the three
\* exchanges have their watermarks, the updated one different from the others.
C25_Witness ==
    /\ call.op = "restart" /\ call.pop = "update"
    /\ DOMAIN state = Exchanges
    /\ state[call.pex] = call.pt
    /\ \E e \in Exchanges : state[e] # call.pt
    /\ file = stringify(state)

\* C26 (cycle failures are process-nonfatal): no step of a cycle, whatever the
\* exchange or the backend answers (a request that throws, a body that cannot
\* be read, an item that cannot be normalised, a submission that fails), ends
\* the process or removes a worker; a cycle ended by an error leaves its worker
\* running, and its timer can start the worker's next cycle at the next tick.
C26_CycleErrorsDoNotEscape ==
    /\ [][workers' = workers]_vars
    /\ [](last.threw =>
            /\ last.ex \in workers
            /\ cycles[last.idx].pc = "done"
            /\ (Len(cycles) < MaxCycles /\ \E at \in Times : at >= nextFire[last.ex])
                  => ENABLED TimerFire(last.ex))

\* C26 witness: a cycle ended by an error at an item without uid, after at
\* least one submission, and the same worker's next cycle has started.
C26_Witness ==
    /\ faulty /\ last.threw /\ last.malformed /\ last.calls >= 1
    /\ \E c \in DOMAIN cycles : c > last.idx /\ cycles[c].pc # "done"
                                 /\ cycles[c].ex = last.ex

\* C23 (Gate price lookup miss): a record whose asset has no price in the
\* ticker table is submitted with the value 0, and in normal mode a Gate cycle
\* with such a record calls sendTradeData for every record it has to submit,
\* ends without error and advances the watermark.
C23_PriceMissConvertsToZero ==
    /\ \A c \in DOMAIN cycles : \A i \in 1..Len(cycles[c].sent) :
          cycles[c].sent[i].miss => cycles[c].sent[i].feeUsdt = 0
    /\ (mode = "normal" /\ last.ex = "gate" /\ last.missAt > 0)
         => (last.updated /\ ~last.threw /\ last.calls = last.sendable)

\* C23 witness: a Gate cycle in normal mode submitted a record without price,
\* then at least one more record, and advanced the watermark.
C23_Witness ==
    /\ mode = "normal" /\ last.ex = "gate"
    /\ last.missAt > 0 /\ last.calls > last.missAt
    /\ last.updated /\ state["gate"] = last.now

\* whether two entries agree on what the key of the exchange is made of
SameRecord(ex, r1, r2) ==
    /\ r1.date = r2.date /\ r1.uid = r2.uid
    /\ ex \in {"xt", "XT"} => r1.type = r2.type

\* C21 (dedup key scheme): has(ex, r) is true exactly when add was called
\* since the last reset for the same exchange with an entry equal to r on date
\* and uid and, for XT, on type, and the last has call returned just that; XT
\* entries that differ only in type have different keys, entries of another
\* exchange that differ only in type have the same key, and entries of
\* different exchanges never share a key.
C21_KeyScheme ==
    /\ \A ex \in CacheExchanges, r \in CacheEntries :
          has(ex, r) <=> \E p \in added : p[1] = ex /\ SameRecord(ex, p[2], r)
    /\ call.op = "has" =>
          (call.ret <=> \E p \in added : p[1] = call.ex /\ SameRecord(call.ex, p[2], call.entry))
    /\ \A ex1, ex2 \in CacheExchanges : \A r1, r2 \in CacheEntries :
          /\ generateKey(ex1, r1) = generateKey(ex2, r2) => ex1 = ex2
          /\ (ex1 = ex2 /\ r1.date = r2.date /\ r1.uid = r2.uid /\ r1.type # r2.type)
                => (generateKey(ex1, r1) # generateKey(ex2, r2) <=> ex1 \in {"xt", "XT"})

\* C21 witness: after a reset, has returned true for a Bitget entry that was
\* added only with the other type, while of an XT entry's two types one is
\* known and the other is not.
C21_Witness ==
    /\ resets = 1 /\ call.op = "has" /\ call.ex = "bitget" /\ call.ret
    /\ <<"bitget", call.entry>> \notin added
    /\ \E r1, r2 \in CacheEntries :
          /\ r1.date = r2.date /\ r1.uid = r2.uid /\ r1.type # r2.type
          /\ <<"xt", r1>> \in added /\ has("xt", r1) /\ ~has("xt", r2)

\* C24 (as claimed): an exchange whose API key or secret is missing at startup
\* has no worker and no sync cycle: its worker is never started and
\* fetchAndProcessCommissions of that exchange is never called.
C24_NoCycleWithoutCredentials ==
    \A ex \in Exchanges :
        (~config(ex).apiKey \/ ~config(ex).secretKey)
        => /\ ex \notin workers
           /\ \A c \in DOMAIN cycles : cycles[c].ex # ex
           /\ ~(last.now > 0 /\ last.ex = ex)

\* a transaction has been mined in this step
MinedNow == tx'.n = tx.n + 1

\* C27 (token cap): in every reachable state of the contract totalSupply is at
\* most the cap.
C27_SupplyWithinCap ==
    tok.supply <= cap

\* C27 witness: a contract deployed on a day of the schedule for which it has
\* minted issuance and vesting up to more than four fifths of the cap, and
\* transactions have been sent to it.
C27_Witness ==
    /\ tok.lastMintDay > 0 /\ tok.lastVestingMonth > 0
    /\ tok.bal["team"] > 0 /\ tok.bal["owner"] > 0
    /\ tok.supply * 10 > cap * 8
    /\ tx.n = MaxTx

\* C28 (as claimed): burn(value) sent by a holder of at least value, at
\* whatever time, decreases totalSupply by value and the holder's balance by
\* value.
C28_BurnDecreasesByAmount ==
    [][(MinedNow /\ tx'.op = "burn" /\ tok.bal[tx'.sender] >= tx'.value)
       => (/\ tok'.supply = tok.supply - tx'.value
           /\ tok'.bal[tx'.sender] = tok.bal[tx'.sender] - tx'.value)]_vars

\* C29 (as claimed): a transfer by a holder of the value, executed when the
\* current day is greater than lastMintDay, increases totalSupply and sets
\* lastMintDay to the current day, at most the last day of the schedule; and
\* lastMintDay never decreases.
C29_TransferMintsDueDays ==
    [][/\ (MinedNow /\ tx'.op = "transfer" /\ tx'.to # Zero
            /\ tok.bal[tx'.sender] >= tx'.value /\ today > tok.lastMintDay)
          => (/\ tok'.supply > tok.supply
              /\ tok'.lastMintDay = IF today < TOTAL_DAYS THEN today ELSE TOTAL_DAYS - 1)
       /\ tok'.lastMintDay >= tok.lastMintDay]_vars

\* C30 (token access control): setProjectAddresses succeeds exactly when the
\* current owner sends it; a call that reverts changes nothing of the
\* contract, its addresses included; a transferOwnership that succeeds was
\* sent by the owner and makes its argument the owner, and the previous
\* owner's next setProjectAddresses reverts.
C30_OnlyOwnerSetsAddresses ==
    [][MinedNow =>
        /\ tx'.op = "setProjectAddresses" =>
              /\ tx'.ok <=> tx'.sender = tok.owner
              /\ tx'.ok => tok'.proj \in NewProjects /\ tok'.proj[0] = tx'.to
              /\ ~tx'.ok => tok' = tok
        /\ (tx'.op = "transferOwnership" /\ tx'.ok) =>
              tx'.sender = tok.owner /\ tok'.owner = tx'.to
        /\ (tx'.op = "setProjectAddresses" /\ tx.op = "transferOwnership" /\ tx.ok
              /\ tx'.sender = tx.sender /\ tx.to # tx.sender) => ~tx'.ok]_vars

\* C30 witness: after the ownership went to user1, a setProjectAddresses of the
\* previous owner reverted.
C30_Witness ==
    /\ tx.op = "setProjectAddresses" /\ ~tx.ok /\ tx.sender = "owner"
    /\ tok.owner = "user1"
    /\ tok.proj = InitialProjects

\* C33: in normal mode a cycle that advances the watermark writes it after the
\* last sendTradeData call it made has returned, and writes the `now` it
\* captured before its request, which is the end of its window (for Gate, in
\* whole seconds), whatever the time at which the cycle finishes.
C33_AdvanceAfterSendsToWindowEnd ==
    [][\A c \in DOMAIN cycles :
          (mode = "normal" /\ cycles[c] # Gone /\ cycles'[c] = Gone /\ state' # state)
          => LET cyc == cycles[c] IN
             /\ state'[cyc.ex] = cyc.now
             /\ cyc.end = IF cyc.ex = "gate" THEN cyc.now \div UnitsPerSec ELSE cyc.now
             /\ \A i \in 1..Len(cyc.sent) :
                    cyc.sent[i].returned \/ (i = Len(cyc.sent) /\ cyc.pc = "send")
             /\ cyc.pc # "send" => cyc.sent = <<>>]_vars

\* a cycle that submitted records has advanced the watermark to its `now`
\* and finished after time had passed
C33_Witness ==
    /\ mode = "normal"
    /\ last.updated /\ last.calls >= 1
    /\ last.ex \in DOMAIN state /\ state[last.ex] = last.now
    /\ clock > last.now

\* a timestamp of the state store (ms) in the unit of the exchange's request
InRequestUnit(ex, ms) == IF ex = "gate" THEN ms \div UnitsPerSec ELSE ms

\* cycle c computes its window in this step while no other cycle runs, in
\* normal mode and with a watermark stored
StartsAlone(c) ==
    /\ mode = "normal"
    /\ c \in DOMAIN cycles'
    /\ cycles'[c] # Gone /\ cycles'[c].read # 0
    /\ c \in DOMAIN cycles => cycles[c].read = 0
    /\ \A d \in DOMAIN cycles : d # c => cycles[d] = Gone
    /\ cycles'[c].ex \in DOMAIN state /\ state[cycles'[c].ex] # 0

\* a cycle that ends in this step changes the watermark only to the end of
\* its own window
WatermarkIsWindowEnd ==
    \A c \in DOMAIN cycles :
        (cycles[c] # Gone /\ cycles'[c] = Gone /\ state' # state)
        => InRequestUnit(cycles[c].ex, state'[cycles[c].ex]) = cycles[c].end

\* C34 (as stated): the window of a cycle that runs after the others have
\* ended starts at the stored watermark, which is the end of the window of
\* the cycle that advanced it last.
C34_WindowStartsAtLastEnd ==
    [][/\ WatermarkIsWindowEnd
       /\ \A c \in 1..MaxCycles :
            StartsAlone(c)
            => cycles'[c].start = InRequestUnit(cycles'[c].ex, state[cycles'[c].ex])]_vars

\* C34 (amended): the same, except that a Gate window whose start would lie
\* more than 30 days before its end starts 30 days before its end.
C34_WindowStartsAtLastEndOrCap ==
    [][/\ WatermarkIsWindowEnd
       /\ \A c \in 1..MaxCycles :
            StartsAlone(c)
            => LET cyc == cycles'[c]
                   stored == InRequestUnit(cyc.ex, state[cyc.ex])
               IN  cyc.start = IF cyc.ex = "gate" /\ cyc.end - stored > 30 * SecPerDay
                               THEN cyc.end - 30 * SecPerDay
                               ELSE stored]_vars

\* the second cycle runs alone, after the first one advanced the watermark,
\* and its window starts where the first one's ended
C34_Witness ==
    /\ mode = "normal"
    /\ Len(cycles) = 2 /\ cycles[1] = Gone /\ cycles[2] # Gone
    /\ last.idx = 1 /\ last.updated
    /\ cycles[2].read = last.now
    /\ cycles[2].start = InRequestUnit(cycles[2].ex, last.now)
    /\ cycles[2].start < cycles[2].end

\* whether the windows [s1, e1) and [s2, e2) have a time in common
Overlap(s1, e1, s2, e2) == s1 < e2 /\ s2 < e1

C36_AdvancedCycleSkippedNothing ==
    (mode = "normal" /\ last.idx # 0 /\ last.updated /\ last.ex \in {"bitget", "gate"}
        /\ ~last.envFail)
    => /\ ~last.more
       /\ last.calls = last.sendable

\* C37: in normal mode a cycle whose fetch returned a success envelope has,
\* when it returns, called sendTradeData for every returned item it submits
\* and advanced the watermark, whatever the items hold (an item without uid
\* included).
C37_ItemContentDoesNotStopCycle ==
    (/\ mode = "normal"
     /\ last.idx # 0 /\ last.now > 0 /\ ~last.noop /\ ~last.envFail
     /\ ~(last.threw /\ ~last.malformed))
    => (last.updated /\ last.calls = last.sendable)

\* _getCurrentMonth on a day of the chain
MonthOf(day) == day \div DAYS_PER_MONTH

\* C32: a transfer by a holder of the value, executed in a month M greater
\* than lastVestingMonth, sets lastVestingMonth to M and increases the
\* balance of the team, private and community addresses, each while its
\* vesting period is not over; executed in a month M <= lastVestingMonth it
\* leaves lastVestingMonth and those balances alone.
C32_TransferVestsDueMonths ==
    [][(MinedNow /\ tx'.op = "transfer" /\ tx'.to # Zero
            /\ tok.bal[tx'.sender] >= tx'.value)
       => IF MonthOf(today) > tok.lastVestingMonth
          THEN /\ tok'.lastVestingMonth = MonthOf(today)
               /\ tok.lastVestingMonth + 1 < TEAM_VESTING_MONTHS
                     => tok'.bal["team"] > tok.bal["team"]
               /\ tok.lastVestingMonth + 1 < PRIVATE_VESTING_MONTHS
                     => tok'.bal["private"] > tok.bal["private"]
               /\ tok.lastVestingMonth + 1 < COMMUNITY_VESTING_MONTHS
                     => tok'.bal["community"] > tok.bal["community"]
          ELSE /\ tok'.lastVestingMonth = tok.lastVestingMonth
               /\ \A a \in {"team", "private", "community"} : tok'.bal[a] = tok.bal[a]]_vars

\* C31: getDailyIssuance(d) is greater than 0 for every day d < 18250, is 0
\* for every d >= 18250, and is greater than getDailyIssuance(d + 1) for
\* every d < 18249, the step from day 7299 to day 7300 included.
C31_IssuancePositiveAndDecreasing ==
    (tx.op = "getDailyIssuance" /\ tx.done)
    => /\ tx.s < 18250 => tx.ret > 0
       /\ tx.s >= 18250 => tx.ret = 0
       /\ tx.s < 18249 => tx.ret > getDailyIssuanceIn(Fine, tx.s + 1)

\* the issuance of day 7299, the last of the first phase, has been asked for
\* and is above the second phase's first
C31_Witness ==
    /\ tx.op = "getDailyIssuance" /\ tx.done
    /\ tx.s = 7299
    /\ tx.ret > Fine.i1

\* the sum of getDailyIssuance over the days a..b
RECURSIVE SumOfDays(_, _)
SumOfDays(a, b) ==
    IF a > b THEN 0
    ELSE IF a = b THEN getDailyIssuanceIn(Fine, a)
    ELSE SumOfDays(a, (a + b) \div 2) + SumOfDays((a + b) \div 2 + 1, b)

\* C39 (as stated): _calculateMintAmount(s, e) equals the sum of
\* getDailyIssuance(d) over the days s..e, for s <= e < 18250.
C39_MintAmountIsSumOfDays ==
    (tx.op = "calculateMintAmount" /\ tx.done)
    => tx.ret = SumOfDays(tx.s, tx.e)

\* C39 (amended): _calculateMintAmount(s, e) is the sum of getDailyIssuance
\* over s..e for a range of one or two days, and for a longer range differs
\* from that sum by less than the number of days of the range.
C39_MintAmountNearSumOfDays ==
    (tx.op = "calculateMintAmount" /\ tx.done)
    => LET sum == SumOfDays(tx.s, tx.e)
           days == tx.e - tx.s + 1
       IN  /\ days <= 2 => tx.ret = sum
           /\ tx.ret - sum < days
           /\ sum - tx.ret < days

\* a range across the phase boundary whose amount is not the sum of its days
C39_Witness ==
    /\ tx.op = "calculateMintAmount" /\ tx.done
    /\ tx.s < 7300 /\ tx.e >= 7300
    /\ tx.ret # SumOfDays(tx.s, tx.e)

\* C38: for a user with a bound email, when the listener of every emitted
\* event has ended and no request of a listener failed, the balance the
\* backend holds is the user's balance on the chain.
C38_BackendHoldsChainBalance ==
    (/\ gntx.bound /\ ~gntx.failed
     /\ gntx.events # <<>>
     /\ \A i \in DOMAIN gntx.handlers : gntx.handlers[i].pc = "done")
    => gntx.backend = gntx.chain

====
